---- MODULE Spec2Model ----
(***************************************************************************)
(* Wine Snap: the /api/analyze route (two-pass extraction / enrichment),   *)
(* its response sanitizer, the confidence clamp of the single-pass page    *)
(* and the submission flows of the two page components.                    *)
(***************************************************************************)
EXTENDS Integers, Sequences, FiniteSets, TLC

VARIABLES
    apiKey,                \* process.env.ANTHROPIC_API_KEY
    reqBody,               \* the body of the request POST is handling
    pc,                    \* where POST stands: start, awaitA, awaitB, done
    calls,                 \* the outbound calls (fetch) issued so far, in order
    ansA, ansB,            \* what the provider answered to each call
    extracted,             \* POST's local `extracted`, once assigned
    response,              \* the Response POST returned
    sIn, sOut,             \* stripMarkdownCodeFences: argument, result
    cIn, cOut,             \* clamp01: argument, result
    page,                  \* which page component is mounted
    ui,                    \* the component's state (useState)
    flows,                 \* the onPick calls so far, each with its position
    resolved,              \* the flows that have run to their end, in order
    overlap                \* a file was picked while a flow was in flight

postVars == <<apiKey, reqBody, pc, calls, ansA, ansB, extracted, response>>
stripVars == <<sIn, sOut>>
clampVars == <<cIn, cOut>>
uiVars == <<page, ui, flows, resolved, overlap>>
vars == <<postVars, stripVars, clampVars, uiVars>>

(***************************************************************************)
(* Text.  A text is a sequence of characters.  The characters that matter  *)
(* to the sanitizer's two regular expressions are the backtick, the        *)
(* letters [a-zA-Z], white space (\s) and the line terminators.            *)
(***************************************************************************)
\* the backtick character (a TLA+ string cannot hold one)
BT == "tick"
NL == "\n"
SP == " "
Letters == {"j", "s"}

IsLetter(c) == c \in Letters
IsSpace(c) == c \in {SP, NL}
IsLineTerm(c) == c = NL

Fence == <<BT, BT, BT>>

\* s has a fence at index i
FenceAt(s, i) == /\ i >= 1
                 /\ i + 2 <= Len(s)
                 /\ s[i] = BT /\ s[i + 1] = BT /\ s[i + 2] = BT

\* ^ under the m flag: start of input or just after a line terminator
LineStart(s, i) == i = 1 \/ IsLineTerm(s[i - 1])

\* $ under the m flag: end of input or just before a line terminator
LineEnd(s, i) == i = Len(s) + 1 \/ IsLineTerm(s[i])

RECURSIVE SkipLetters(_, _)
SkipLetters(s, i) ==
    IF i <= Len(s) /\ IsLetter(s[i]) THEN SkipLetters(s, i + 1) ELSE i

RECURSIVE SkipSpace(_, _)
SkipSpace(s, i) ==
    IF i <= Len(s) /\ IsSpace(s[i]) THEN SkipSpace(s, i + 1) ELSE i

Min(S) == CHOOSE m \in S : \A k \in S : m <= k

\* s.replace(/^```[a-zA-Z]*\s*/m, ""): the leftmost match, replaced once
LeadMatches(s) == {i \in 1..Len(s) : LineStart(s, i) /\ FenceAt(s, i)}

\* the same replacement without the ^ anchor
ReplaceLeadUnanchored(s) ==
    LET M == {i \in 1..Len(s) : FenceAt(s, i)}
    IN IF M = {} THEN s
       ELSE LET i == Min(M)
                j == SkipSpace(s, SkipLetters(s, i + 3))
            IN SubSeq(s, 1, i - 1) \o SubSeq(s, j, Len(s))

ReplaceLead(s) ==
    IF LeadMatches(s) = {} THEN s
    ELSE LET i == Min(LeadMatches(s))
             j == SkipSpace(s, SkipLetters(s, i + 3))
         IN SubSeq(s, 1, i - 1) \o SubSeq(s, j, Len(s))

\* s.replace(/```$/m, ""): the leftmost match, replaced once
TailMatches(s) == {i \in 1..Len(s) : FenceAt(s, i) /\ LineEnd(s, i + 3)}

ReplaceTail(s) ==
    IF TailMatches(s) = {} THEN s
    ELSE LET i == Min(TailMatches(s))
         IN SubSeq(s, 1, i - 1) \o SubSeq(s, i + 3, Len(s))

RECURSIVE TrimStart(_)
TrimStart(s) ==
    IF s # <<>> /\ IsSpace(Head(s)) THEN TrimStart(Tail(s)) ELSE s

RECURSIVE TrimEnd(_)
TrimEnd(s) ==
    IF s # <<>> /\ IsSpace(s[Len(s)]) THEN TrimEnd(SubSeq(s, 1, Len(s) - 1)) ELSE s

\* String.prototype.trim
Trim(s) == TrimEnd(TrimStart(s))

stripMarkdownCodeFences(s) == Trim(ReplaceTail(ReplaceLead(s)))

(***************************************************************************)
(* Texts up to MaxToks tokens; a token is a fence or a single character.   *)
(***************************************************************************)
MaxToks == 6

Tokens == {Fence, <<BT>>, <<"j">>, <<SP>>, <<NL>>, <<"x">>}

RECURSIVE Flatten(_)
Flatten(ts) == IF ts = <<>> THEN <<>> ELSE Head(ts) \o Flatten(Tail(ts))

Texts == {Flatten(ts) : ts \in UNION {[1..k -> Tokens] : k \in 0..MaxToks}}

(***************************************************************************)
(* JSON.  A JSON document arriving in a model's text is one character of   *)
(* the text: it starts with no letter and no backtick and has no line      *)
(* that begins or ends with a fence, which is all the sanitizer can see of *)
(* it.  The same value may arrive compact or pretty-printed.               *)
(***************************************************************************)
DeclaredFields == {"producer", "wine_name", "vintage", "region", "country", "grapes",
                   "appellation", "abv", "label_text_read", "confidence_0_to_1"}
EnrichedFields == {"overview", "style_overview", "typical_tasting_notes", "food_pairings"}

Obj(keys) == [type |-> "object", fields |-> [k \in keys |-> "v"]]
Num == [type |-> "number", fields |-> [k \in {} |-> "v"]]

DocTexts == {"{full}", "{ full }", "{partial}", "{extra}", "{}", "42",
             "{enriched}", "{ enriched }"}

JsonValueOf(d) ==
    CASE d \in {"{full}", "{ full }"} -> Obj(DeclaredFields)
      [] d = "{partial}" -> Obj({"producer", "vintage"})
      [] d = "{extra}" -> Obj(DeclaredFields \cup {"tasting_notes"})
      [] d = "{}" -> Obj({})
      [] d = "42" -> Num
      [] d \in {"{enriched}", "{ enriched }"} -> Obj(EnrichedFields)

CompactDocs == DocTexts \ {"{ full }", "{ enriched }"}

\* JSON.parse accepts exactly one document between optional white space
ParsesAsJson(s) == LET t == Trim(s) IN Len(t) = 1 /\ t[1] \in DocTexts
JsonParse(s) == JsonValueOf(Trim(s)[1])

\* JSON.stringify writes the compact text of a value
JsonStringify(v) == <<CHOOSE d \in CompactDocs : JsonValueOf(d) = v>>

(***************************************************************************)
(* The provider's answer to one call: fetch rejects, or it resolves with   *)
(* a status and a body that is JSON or is not.                             *)
(***************************************************************************)
TextBlock(t) == [type |-> "text", text |-> t]
ToolBlock == [type |-> "tool_use", text |-> <<>>]

Answer(kind, ok, content, payload) ==
    [kind |-> kind, ok |-> ok, content |-> content, payload |-> payload]
NoAnswer == Answer("none", FALSE, <<>>, "")

\* data?.content?.find((c) => c.type === "text")?.text ?? ""
FirstText(content) ==
    LET T == {i \in 1..Len(content) : content[i].type = "text"}
    IN IF T = {} THEN <<>> ELSE content[Min(T)].text

Returned(t) == [threw |-> FALSE, text |-> t, message |-> <<>>]
Threw(m) == [threw |-> TRUE, text |-> <<>>, message |-> m]

\* String(e?.message ?? e) of what callAnthropic throws
callAnthropic(ans) ==
    CASE ans.kind = "reject" -> Threw(<<"fetch failed">>)
      [] ans.kind = "notjson" -> Threw(<<"Unexpected token">>)
      [] ans.kind = "json" /\ ~ans.ok -> Threw(<<"Anthropic error: ", ans.payload>>)
      [] ans.kind = "json" /\ ans.ok ->
            Returned(stripMarkdownCodeFences(FirstText(ans.content)))

(***************************************************************************)
(* JavaScript values, as far as clamp01 tells them apart.  A finite number *)
(* is counted in units of 1/Scale, so that Scale stands for 1.             *)
(***************************************************************************)
Scale == 4
MaxNum == 8

Fin(k) == <<"finite", k>>
NaN == <<"NaN", 0>>
Inf == <<"Infinity", 1>>
NegInf == <<"Infinity", -1>>
IsFinite(x) == x[1] = "finite"

JsValue(t, num, str, elems) == [t |-> t, num |-> num, str |-> str, elems |-> elems]
JsNumber(x) == JsValue("number", x, "", <<>>)
JsNull == JsValue("null", NaN, "", <<>>)
JsUndefined == JsValue("undefined", NaN, "", <<>>)
JsBoolean(b) == JsValue("boolean", IF b THEN Fin(Scale) ELSE Fin(0), "", <<>>)
\* a string: a numeric literal of value x, the empty string, white space, or
\* any other text
JsString(kind, x) == JsValue("string", x, kind, <<>>)
JsArray(elems) == JsValue("array", NaN, "", elems)
JsObject == JsValue("object", NaN, "", <<>>)

\* StringToNumber
StringToNumber(v) ==
    CASE v.str = "numeral" -> v.num
      [] v.str \in {"empty", "blank"} -> Fin(0)
      [] OTHER -> NaN

\* String(e) of an array element, as Array.prototype.join writes it, read
\* back as a number
ElementToNumber(e) ==
    CASE e.t \in {"null", "undefined"} -> Fin(0)
      [] e.t = "number" -> e.num
      [] e.t = "string" -> StringToNumber(e)
      [] OTHER -> NaN

\* Number(n)
ToNumber(n) ==
    CASE n.t = "number" -> n.num
      [] n.t = "undefined" -> NaN
      [] n.t = "null" -> Fin(0)
      [] n.t = "boolean" -> n.num
      [] n.t = "string" -> StringToNumber(n)
      [] n.t = "array" -> IF Len(n.elems) = 0 THEN Fin(0)
                          ELSE IF Len(n.elems) = 1 THEN ElementToNumber(n.elems[1])
                          ELSE NaN
      [] n.t = "object" -> NaN

MaxOf(a, b) == IF a >= b THEN a ELSE b
MinOf(a, b) == IF a <= b THEN a ELSE b

clamp01(n) ==
    LET x == IF n.t = "number" THEN n.num ELSE ToNumber(n)
    IN IF ~IsFinite(x) THEN JsNull
       ELSE JsNumber(Fin(MaxOf(0, MinOf(Scale, x[2]))))

Numbers == {Fin(k) : k \in (-MaxNum)..MaxNum} \cup {NaN, Inf, NegInf}
Scalars == {JsNumber(x) : x \in Numbers}
           \cup {JsNull, JsUndefined, JsBoolean(TRUE), JsBoolean(FALSE)}
           \cup {JsString("numeral", x) : x \in Numbers \ {NaN}}
           \cup {JsString(k, NaN) : k \in {"empty", "blank", "word"}}
JsValues == Scalars
            \cup {JsArray(<<>>), JsObject}
            \cup {JsArray(<<e>>) : e \in Scalars}
            \cup {JsArray(<<JsNumber(Fin(0)), e>>) : e \in {JsNull, JsNumber(Fin(Scale))}}

(***************************************************************************)
(* POST                                                                    *)
(***************************************************************************)
Absent == "<undefined>"
Truthy(v) == v \notin {Absent, ""}

Body(kind, image, media) == [kind |-> kind, imageBase64 |-> image, mediaType |-> media]

NoBody == [k \in {} |-> k]
NoResponse == [status |-> 0, body |-> NoBody]
Respond(status, body) == [status |-> status, body |-> body]

CallA(key, body) ==
    [pass |-> "A", key |-> key, image |-> body.imageBase64,
     media |-> body.mediaType, embedded |-> <<>>]
\* a pass B prompt that leaves the extraction result out
CallBWithoutExtracted(key, ex) ==
    [pass |-> "B", key |-> key, image |-> Absent, media |-> Absent,
     embedded |-> <<>>]

CallB(key, ex) ==
    [pass |-> "B", key |-> key, image |-> Absent, media |-> Absent,
     embedded |-> JsonStringify(ex)]

ServerError(m) == Respond(500, [error |-> "Server error", details |-> m])

\* a credential check that never fires
KeyNeverMissing(key) == FALSE

\* line 31: !apiKey
KeyMissing(key) == ~Truthy(key)

\* a pass A parse failure reported as a server error, without the text
ExtractionFailedAsServerError(t) == ServerError(<<"Unexpected token">>)

\* line 60
ExtractionFailed(t) == Respond(502, [error |-> "Extraction not valid JSON", raw |-> t])

\* a pass B parse failure that drops the extraction result
EnrichmentFailedDropsExtracted(ex, t) ==
    Respond(502, [error |-> "Enrichment not valid JSON", raw |-> t])

\* line 111
EnrichmentFailed(ex, t) ==
    Respond(200, [extracted |-> ex,
                  enrichment_error |-> "Enrichment not valid JSON",
                  raw |-> t])

\* line 114
Enriched(ex, en) == Respond(200, [extracted |-> ex, enriched |-> en])

\* lines 23-54: read the body, check the fields, check the key, call pass A
Receive ==
    /\ pc = "start"
    /\ IF reqBody.kind = "notjson" THEN
            \* req.json() rejects
            /\ response' = ServerError(<<"Unexpected token">>)
            /\ pc' = "done"
            /\ UNCHANGED calls
       ELSE IF reqBody.kind = "null" THEN
            \* destructuring null throws a TypeError
            /\ response' = ServerError(<<"Cannot destructure">>)
            /\ pc' = "done"
            /\ UNCHANGED calls
       ELSE IF ~Truthy(reqBody.imageBase64) \/ ~Truthy(reqBody.mediaType) THEN
            /\ response' = Respond(400, [error |-> "Missing imageBase64 or mediaType"])
            /\ pc' = "done"
            /\ UNCHANGED calls
       ELSE IF KeyMissing(apiKey) THEN
            /\ response' = Respond(500, [error |-> "Missing ANTHROPIC_API_KEY"])
            /\ pc' = "done"
            /\ UNCHANGED calls
       ELSE
            /\ calls' = Append(calls, CallA(apiKey, reqBody))
            /\ pc' = "awaitA"
            /\ UNCHANGED response
    /\ UNCHANGED <<apiKey, reqBody, ansA, ansB, extracted>>
    /\ UNCHANGED <<stripVars, clampVars, uiVars>>

\* lines 34-104: pass A's call settles; parse; call pass B
AfterPassA(ans) ==
    /\ pc = "awaitA"
    /\ ansA' = ans
    /\ LET r == callAnthropic(ans) IN
       IF r.threw THEN
            /\ response' = ServerError(r.message)
            /\ pc' = "done"
            /\ UNCHANGED <<calls, extracted>>
       ELSE IF ~ParsesAsJson(r.text) THEN
            /\ response' = ExtractionFailed(r.text)
            /\ pc' = "done"
            /\ UNCHANGED <<calls, extracted>>
       ELSE
            /\ extracted' = <<JsonParse(r.text)>>
            /\ calls' = Append(calls, CallB(apiKey, JsonParse(r.text)))
            /\ pc' = "awaitB"
            /\ UNCHANGED response
    /\ UNCHANGED <<apiKey, reqBody, ansB>>
    /\ UNCHANGED <<stripVars, clampVars, uiVars>>

\* lines 64-114: pass B's call settles; parse; respond
AfterPassB(ans) ==
    /\ pc = "awaitB"
    /\ ansB' = ans
    /\ LET r == callAnthropic(ans) IN
       IF r.threw THEN
            response' = ServerError(r.message)
       ELSE IF ~ParsesAsJson(r.text) THEN
            response' = EnrichmentFailed(extracted[1], r.text)
       ELSE
            response' = Enriched(extracted[1], JsonParse(r.text))
    /\ pc' = "done"
    /\ UNCHANGED <<apiKey, reqBody, calls, ansA, extracted>>
    /\ UNCHANGED <<stripVars, clampVars, uiVars>>

(***************************************************************************)
(* The page components.  Each onPick call is a flow: it writes the         *)
(* component's state when it starts, awaits the image preparation, awaits  *)
(* the request to /api/analyze, and writes the state again when it ends.   *)
(* Nothing cancels a flow; the flows of one page interleave at the awaits. *)
(***************************************************************************)
Null == <<>>
Some(v) == <<v>>

\* the values of flow i: the object URL of its file, the records and the
\* texts a response to it carries
BlobUrl(i) == [flow |-> i, what |-> "blob"]
Tagged(i, what) == [flow |-> i, what |-> what]
\* JSON.stringify(data, null, 2) of the response called `name`
JsonText(i, name) == [flow |-> i, what |-> "json", text |-> name]
\* String(e?.message ?? e)
Message(i, m) == [flow |-> i, what |-> "message", text |-> m]

Flow(at, wrote) == [pc |-> at, wrote |-> wrote]

\* the setters a flow calls, applied to the state
Set(state, writes) ==
    [f \in DOMAIN state |-> IF f \in DOMAIN writes THEN writes[f] ELSE state[f]]

Settle(i, writes) ==
    /\ ui' = Set(ui, writes)
    /\ flows' = [flows EXCEPT ![i] = Flow("done", Some(writes))]
    /\ resolved' = Append(resolved, i)

InFlight == {i \in 1..Len(flows) : flows[i].pc # "done"}

\* what settles a request: fetch rejects, the body is not JSON, or a
\* response with a status and a JSON body
Reply(kind, ok, name, data) == [kind |-> kind, ok |-> ok, name |-> name, data |-> data]
NoData == [k \in {} |-> k]

\* data.<k> ?? null
OrNull(data, k) == IF k \in DOMAIN data THEN Some(data[k]) ELSE Null

(***************************************************************************)
(* The two-pass page                                                       *)
(***************************************************************************)
TwoPassInitial ==
    [status |-> "", extracted |-> Null, enriched |-> Null, previewUrl |-> Null,
     error |-> Null]

\* lines 79-84
TwoPassPick(i) ==
    /\ page = "two-pass"
    /\ i = Len(flows) + 1
    /\ ui' = [status |-> "Analyzing wine label...", extracted |-> Null,
              enriched |-> Null, error |-> Null, previewUrl |-> Some(BlobUrl(i))]
    /\ flows' = Append(flows, Flow("resize", Null))
    /\ overlap' = (overlap \/ InFlight # {})
    /\ UNCHANGED <<page, resolved>>

\* lines 86-96 and 109-112: resizeToJpegBase64 settles
TwoPassResized(i, ok) ==
    /\ page = "two-pass"
    /\ i \in 1..Len(flows)
    /\ flows[i].pc = "resize"
    /\ IF ok
       THEN /\ flows' = [flows EXCEPT ![i] = Flow("fetch", Null)]
            /\ UNCHANGED <<ui, resolved>>
       ELSE Settle(i, [error |-> Some(Message(i, "Image load failed")),
                       status |-> "Error"])
    /\ UNCHANGED <<page, overlap>>

\* lines 89-112: the request settles
TwoPassSettled(i, reply) ==
    /\ page = "two-pass"
    /\ i \in 1..Len(flows)
    /\ flows[i].pc = "fetch"
    /\ IF reply.kind = "reject" THEN
            Settle(i, [error |-> Some(Message(i, "Failed to fetch")), status |-> "Error"])
       ELSE IF reply.kind = "notjson" THEN
            Settle(i, [error |-> Some(Message(i, "Unexpected token")), status |-> "Error"])
       ELSE IF ~reply.ok THEN
            Settle(i, [error |-> Some(JsonText(i, reply.name)), status |-> "Error"])
       ELSE
            Settle(i, [extracted |-> OrNull(reply.data, "extracted"),
                       enriched |-> OrNull(reply.data, "enriched"),
                       status |-> "Done"])
    /\ UNCHANGED <<page, overlap>>

\* what /api/analyze may answer to flow i
TwoPassReplies(i) ==
    {Reply("reject", FALSE, "", NoData), Reply("notjson", FALSE, "", NoData),
     Reply("json", TRUE, "enriched",
           [extracted |-> Tagged(i, "extracted"), enriched |-> Tagged(i, "enriched")]),
     Reply("json", TRUE, "enrichment_error",
           [extracted |-> Tagged(i, "extracted"),
            enrichment_error |-> "Enrichment not valid JSON",
            raw |-> Tagged(i, "raw")]),
     Reply("json", FALSE, "502",
           [error |-> "Extraction not valid JSON", raw |-> Tagged(i, "raw")]),
     Reply("json", FALSE, "500",
           [error |-> "Server error", details |-> Tagged(i, "details")])}

(***************************************************************************)
(* The single-pass page                                                    *)
(***************************************************************************)
ResultFields == {"producer", "wine_name", "vintage", "region", "country", "grapes",
                 "appellation", "abv", "tasting_notes", "likely_price_range_usd",
                 "confidence_0_to_1", "label_text_read"}

Text == JsString("word", NaN)

\* r.<k>
Get(r, k) == IF k \in DOMAIN r THEN r[k] ELSE JsUndefined

\* v ?? null
Coalesce(v) == IF v.t \in {"null", "undefined"} THEN JsNull ELSE v

\* ToBoolean
JsTruthy(v) ==
    CASE v.t \in {"null", "undefined"} -> FALSE
      [] v.t = "boolean" -> v.num = Fin(Scale)
      [] v.t = "number" -> v.num \notin {Fin(0), NaN}
      [] v.t = "string" -> v.str # "empty"
      [] OTHER -> TRUE

\* String(v)
ToStringValue(v) ==
    CASE v.t = "string" -> v
      [] v.t = "number" /\ v.num # NaN -> JsString("numeral", v.num)
      [] OTHER -> Text

\* lines 115-128
Normalize(r) ==
    [k \in ResultFields |->
        CASE k = "grapes" ->
                IF Get(r, k).t = "array" THEN Get(r, k)
                ELSE IF JsTruthy(Get(r, k)) THEN JsArray(<<ToStringValue(Get(r, k))>>)
                ELSE JsNull
          [] k = "confidence_0_to_1" -> clamp01(Get(r, k))
          [] OTHER -> Coalesce(Get(r, k))]

SinglePassInitial ==
    [status |-> "", result |-> Null, raw |-> Null, previewUrl |-> Null]

\* lines 86-91
SinglePassPick(i) ==
    /\ page = "single-pass"
    /\ i = Len(flows) + 1
    /\ ui' = [status |-> "Preparing image...", result |-> Null, raw |-> Null,
              previewUrl |-> Some(BlobUrl(i))]
    /\ flows' = Append(flows, Flow("prepare", Null))
    /\ overlap' = (overlap \/ InFlight # {})
    /\ UNCHANGED <<page, resolved>>

\* lines 93-101 and 133-136: downscaleToJpegBase64 settles
SinglePassPrepared(i, ok) ==
    /\ page = "single-pass"
    /\ i \in 1..Len(flows)
    /\ flows[i].pc = "prepare"
    /\ IF ok
       THEN /\ ui' = Set(ui, [status |-> "Analyzing..."])
            /\ flows' = [flows EXCEPT ![i] = Flow("fetch", Null)]
            /\ UNCHANGED resolved
       ELSE Settle(i, [status |-> "Error",
                       raw |-> Some(Message(i, "Failed to load image"))])
    /\ UNCHANGED <<page, overlap>>

\* lines 97-136: the request settles
SinglePassSettled(i, reply) ==
    /\ page = "single-pass"
    /\ i \in 1..Len(flows)
    /\ flows[i].pc = "fetch"
    /\ IF reply.kind = "reject" THEN
            Settle(i, [status |-> "Error", raw |-> Some(Message(i, "Failed to fetch"))])
       ELSE IF reply.kind = "notjson" THEN
            Settle(i, [status |-> "Error", raw |-> Some(Message(i, "Unexpected token"))])
       ELSE IF ~reply.ok THEN
            Settle(i, [status |-> "Error", raw |-> Some(JsonText(i, reply.name))])
       ELSE IF "result" \in DOMAIN reply.data /\ JsTruthy(reply.data.result) THEN
            Settle(i, [status |-> "Done",
                       result |-> Some([flow |-> i,
                                        value |-> Normalize(reply.data.result.fields)])])
       ELSE
            Settle(i, [status |-> "Done", raw |-> Some(JsonText(i, reply.name))])
    /\ UNCHANGED <<page, overlap>>

\* a result object: a JavaScript object with its own properties
ResultObject(fields) == [t |-> "object", num |-> NaN, str |-> "", elems |-> <<>>,
                         fields |-> fields]

SampleResults ==
    {ResultObject([k \in ResultFields |->
                     CASE k = "grapes" -> JsArray(<<Text, Text>>)
                       [] k = "confidence_0_to_1" -> JsNumber(Fin(Scale - 1))
                       [] OTHER -> Text]),
     ResultObject([producer |-> Text, grapes |-> Text, confidence_0_to_1 |-> JsNull]),
     ResultObject([grapes |-> JsNumber(Fin(0)),
                   confidence_0_to_1 |-> JsNumber(Fin(Scale + 1))]),
     ResultObject(NoData)}

SinglePassReplies ==
    {Reply("reject", FALSE, "", NoData), Reply("notjson", FALSE, "", NoData),
     Reply("json", TRUE, "no result", [note |-> Text]),
     Reply("json", FALSE, "502", [error |-> Text, raw |-> Text])}
    \cup {Reply("json", TRUE, "result", [result |-> r]) : r \in SampleResults}

(***************************************************************************)
(* Each specification below runs one part of the program; the variables   *)
(* of the other parts stay as they are here.                               *)
(***************************************************************************)
NotRun == <<"not run">>
NotClamped == JsValue("not run", NaN, "", <<>>)

PostIdle == /\ apiKey = Absent
            /\ reqBody = Body("notjson", Absent, Absent)
            /\ pc = "idle"
            /\ calls = <<>>
            /\ ansA = NoAnswer
            /\ ansB = NoAnswer
            /\ extracted = <<>>
            /\ response = NoResponse

StripIdle == sIn = <<>> /\ sOut = NotRun

ClampIdle == cIn = JsUndefined /\ cOut = NotClamped

UiIdle == /\ page = "none"
          /\ ui = <<>>
          /\ flows = <<>>
          /\ resolved = <<>>
          /\ overlap = FALSE

(***************************************************************************)
(* The requests and the answers the route is run against                   *)
(***************************************************************************)
FieldValues == {Absent, "", "data"}
Bodies == {Body("notjson", Absent, Absent), Body("null", Absent, Absent),
           Body("scalar", Absent, Absent)}
          \cup {Body("object", i, m) : i \in FieldValues, m \in FieldValues}
ApiKeys == {Absent, "", "sk-key"}

\* a payload as the model may wrap it
Wrappings(p) == {p,
                 <<NL>> \o p \o <<SP>>,
                 Fence \o <<"j", NL>> \o p \o <<NL>> \o Fence,
                 Fence \o <<NL>> \o p \o <<NL>> \o Fence \o <<NL>>,
                 <<"x", NL>> \o Fence \o <<NL>> \o p \o <<NL>> \o Fence}

PayloadsA == {<<d>> : d \in {"{full}", "{ full }", "{partial}", "{extra}", "{}", "42"}}
                \cup {<<>>, <<"x">>, <<"{full}", "x">>}
PayloadsB == {<<d>> : d \in {"{enriched}", "{ enriched }", "{}"}}
                \cup {<<>>, <<"x">>, <<"{enriched}", "{enriched}">>}

ModelTexts(P) == UNION {Wrappings(p) : p \in P}

Answers(P) ==
    {Answer("reject", FALSE, <<>>, "")}
    \cup {Answer("notjson", ok, <<>>, "<html>") : ok \in BOOLEAN}
    \cup {Answer("json", FALSE, <<>>, "{overloaded_error}")}
    \cup {Answer("json", TRUE, <<TextBlock(t)>>, "") : t \in ModelTexts(P)}
    \cup {Answer("json", TRUE, c, "") :
            c \in {<<>>, <<ToolBlock>>, <<ToolBlock, TextBlock(<<"{}">>), TextBlock(<<"x">>)>>}}

Init == /\ apiKey \in ApiKeys
        /\ reqBody \in Bodies
        /\ pc = "start"
        /\ calls = <<>>
        /\ ansA = NoAnswer
        /\ ansB = NoAnswer
        /\ extracted = <<>>
        /\ response = NoResponse
        /\ StripIdle
        /\ ClampIdle
        /\ UiIdle

PassASettles == \E ans \in Answers(PayloadsA) : AfterPassA(ans)
PassBSettles == \E ans \in Answers(PayloadsB) : AfterPassB(ans)

Next == Receive \/ PassASettles \/ PassBSettles

Spec == Init /\ [][Next]_vars

(***************************************************************************)
(* stripMarkdownCodeFences on every text of the bound                      *)
(***************************************************************************)
StripInit == /\ sIn \in Texts
             /\ sOut = NotRun
             /\ PostIdle
             /\ ClampIdle
             /\ UiIdle

Strip == /\ sOut = NotRun
         /\ sOut' = <<"ok", stripMarkdownCodeFences(sIn)>>
         /\ UNCHANGED <<sIn, postVars, clampVars, uiVars>>

StripNext == Strip

SpecStrip == StripInit /\ [][StripNext]_vars

(***************************************************************************)
(* clamp01 on every value of the bound                                     *)
(***************************************************************************)
ClampInit == /\ cIn \in JsValues
             /\ cOut = NotClamped
             /\ PostIdle
             /\ StripIdle
             /\ UiIdle

Clamp == /\ cOut = NotClamped
         /\ cOut' = clamp01(cIn)
         /\ UNCHANGED <<cIn, postVars, stripVars, uiVars>>

ClampNext == Clamp

SpecClamp == ClampInit /\ [][ClampNext]_vars

(***************************************************************************)
(* A page and up to MaxFlows picked files                                  *)
(***************************************************************************)
MaxFlows == 2

UiInit == /\ page \in {"two-pass", "single-pass"}
          /\ ui = (IF page = "two-pass" THEN TwoPassInitial ELSE SinglePassInitial)
          /\ flows = <<>>
          /\ resolved = <<>>
          /\ overlap = FALSE
          /\ PostIdle
          /\ StripIdle
          /\ ClampIdle

Others == <<postVars, stripVars, clampVars>>

PickTwoPass == \E i \in 1..MaxFlows : TwoPassPick(i) /\ UNCHANGED Others
ResizeSettles == \E i \in 1..MaxFlows, ok \in BOOLEAN :
                    TwoPassResized(i, ok) /\ UNCHANGED Others
TwoPassRequestSettles == \E i \in 1..MaxFlows : \E reply \in TwoPassReplies(i) :
                            TwoPassSettled(i, reply) /\ UNCHANGED Others
PickSinglePass == \E i \in 1..MaxFlows : SinglePassPick(i) /\ UNCHANGED Others
PrepareSettles == \E i \in 1..MaxFlows, ok \in BOOLEAN :
                    SinglePassPrepared(i, ok) /\ UNCHANGED Others
SinglePassRequestSettles == \E i \in 1..MaxFlows : \E reply \in SinglePassReplies :
                                SinglePassSettled(i, reply) /\ UNCHANGED Others

UiNext == \/ PickTwoPass
          \/ ResizeSettles
          \/ TwoPassRequestSettles
          \/ PickSinglePass
          \/ PrepareSettles
          \/ SinglePassRequestSettles

SpecUi == UiInit /\ [][UiNext]_vars

(***************************************************************************)
(* Properties of POST                                                      *)
(***************************************************************************)
Done == pc = "done"
Status == response.status
Has(field) == field \in DOMAIN response.body

\* the body is JSON and has no imageBase64 or no mediaType
LacksField(b) == \/ b.kind \in {"null", "scalar"}
                 \/ b.kind = "object" /\ (b.imageBase64 = Absent \/ b.mediaType = Absent)

\* the provider answered with a status: success, or not
Succeeded(ans) == ans.kind = "json" /\ ans.ok
Refused(ans) == ans.kind \in {"json", "notjson"} /\ ~ans.ok

\* the text of a successful answer, as the model wrote it and as sanitized
ModelText(ans) == FirstText(ans.content)
Sanitized(ans) == stripMarkdownCodeFences(ModelText(ans))

CallsOf(pass) == {i \in 1..Len(calls) : calls[i].pass = pass}

\* C1: a JSON body without imageBase64 or without mediaType gets 400 and
\* no outbound call, whatever the credential.
C1_AsStated ==
    LacksField(reqBody) => /\ calls = <<>>
                           /\ Done => Status = 400

\* The part of C1 the code keeps: every JSON body without imageBase64 or
\* without mediaType, the body null aside, gets 400 and no outbound call.
C1_ExceptNull ==
    (LacksField(reqBody) /\ reqBody.kind # "null") =>
        /\ calls = <<>>
        /\ Done => response = Respond(400, [error |-> "Missing imageBase64 or mediaType"])

\* C2 as stated: without a credential every request gets 500 and no
\* outbound call.
C2_AsStated ==
    ~Truthy(apiKey) => /\ calls = <<>>
                       /\ Done => Status = 500

\* C2 amended: without a credential no outbound call is ever issued; the
\* response is 500 "Missing ANTHROPIC_API_KEY" when the body carries a
\* non-empty imageBase64 and mediaType, and 400 or 500 otherwise (the field
\* check comes first).
C2_NoCredential ==
    ~Truthy(apiKey) =>
        /\ calls = <<>>
        /\ Done => /\ Status \in {400, 500}
                   /\ (Truthy(reqBody.imageBase64) /\ Truthy(reqBody.mediaType))
                        => response = Respond(500, [error |-> "Missing ANTHROPIC_API_KEY"])

C2_Witness ==
    /\ Done
    /\ apiKey = Absent
    /\ reqBody = Body("object", "data", "data")
    /\ Status = 500
    /\ calls = <<>>

\* C3: pass A's sanitized text parses and pass B's does not: the response is
\* 200 with exactly extracted (as parsed from pass A), enrichment_error and
\* raw (pass B's text as the model client returned it).
C3_PartialSuccess ==
    (/\ Succeeded(ansA) /\ ParsesAsJson(Sanitized(ansA))
     /\ Succeeded(ansB) /\ ~ParsesAsJson(Sanitized(ansB)))
    =>  /\ Done
        /\ Status = 200
        /\ DOMAIN response.body = {"extracted", "enrichment_error", "raw"}
        /\ response.body.extracted = JsonParse(Sanitized(ansA))
        /\ response.body.enrichment_error = "Enrichment not valid JSON"
        /\ response.body.raw = Sanitized(ansB)

C3_Witness ==
    /\ Done
    /\ ModelText(ansA) = Fence \o <<"j", NL, "{partial}", NL>> \o Fence
    /\ ModelText(ansB) = <<NL, "x", SP>>
    /\ Succeeded(ansB)
    /\ Status = 200
    /\ Has("enrichment_error")
    /\ response.body.extracted = Obj({"producer", "vintage"})

\* C4 as stated: pass A's text is not valid JSON: 502 with an error marker
\* and the model's text unmodified, and pass B is never called.  (Read
\* generously: white space around the text is not counted.)
C4_AsStated ==
    (Succeeded(ansA) /\ ~ParsesAsJson(ModelText(ansA)))
    =>  /\ Done
        /\ Status = 502
        /\ Has("error")
        /\ Has("raw")
        /\ Trim(response.body.raw) = Trim(ModelText(ansA))
        /\ CallsOf("B") = {}

\* C4 amended: pass A's text, once sanitized, is not valid JSON: 502 with
\* the error marker and the sanitized text, and pass B is never called.
C4_ExtractionNotJson ==
    (Succeeded(ansA) /\ ~ParsesAsJson(Sanitized(ansA)))
    =>  /\ Done
        /\ response = Respond(502, [error |-> "Extraction not valid JSON",
                                    raw |-> Sanitized(ansA)])
        /\ CallsOf("B") = {}
        /\ ansB = NoAnswer

C4_Witness ==
    /\ Done
    /\ ModelText(ansA) = Fence \o <<"j", NL, "x", NL>> \o Fence
    /\ Status = 502
    /\ response.body.raw = <<"x">>
    /\ Len(calls) = 1

\* C5: the calls are pass A then pass B, each at most once; pass B is
\* issued only once pass A has answered and its text parsed, and embeds
\* that parsed result; a response with enriched carries the extracted
\* record pass B was given.
C5_Sequential ==
    /\ Len(calls) <= 2
    /\ \A i \in 1..Len(calls) : calls[i].pass = (IF i = 1 THEN "A" ELSE "B")
    /\ CallsOf("B") # {} =>
          /\ Succeeded(ansA)
          /\ ParsesAsJson(Sanitized(ansA))
          /\ calls[2].embedded = JsonStringify(JsonParse(Sanitized(ansA)))
    /\ ansB # NoAnswer => CallsOf("B") # {}
    /\ ansA # NoAnswer => CallsOf("A") # {}
    /\ Has("enriched") =>
          /\ Has("extracted")
          /\ response.body.extracted = JsonParse(Sanitized(ansA))
          /\ calls[2].embedded = JsonStringify(response.body.extracted)

C5_Witness ==
    /\ Done
    /\ ModelText(ansA) = <<NL, "{ full }", SP>>
    /\ Len(calls) = 2
    /\ calls[2].embedded = <<"{full}">>
    /\ Has("enriched")
    /\ response.body.enriched = Obj(EnrichedFields)

\* C9: pass A's text is valid JSON for the extraction schema (an object of
\* declared fields): the extracted record has exactly the declared fields.
C9_AsStated ==
    (/\ Succeeded(ansA) /\ ParsesAsJson(Sanitized(ansA))
     /\ JsonParse(Sanitized(ansA)).type = "object"
     /\ DOMAIN JsonParse(Sanitized(ansA)).fields \subseteq DeclaredFields)
    =>  /\ extracted # <<>>
        /\ DOMAIN extracted[1].fields = DeclaredFields
        /\ Has("extracted") => DOMAIN response.body.extracted.fields = DeclaredFields

\* the raw upstream payload is part of the response's details
CarriesPayload(ans) ==
    /\ Has("details")
    /\ \E i \in 1..Len(response.body.details) : response.body.details[i] = ans.payload

\* C10: the provider answers a pass with a non-success status: 500 or 502
\* carrying the upstream payload, no retry and no further call.
C10_AsStated ==
    /\ Refused(ansA) => /\ Done
                        /\ Status \in {500, 502}
                        /\ CarriesPayload(ansA)
                        /\ Len(calls) = 1
    /\ Refused(ansB) => /\ Done
                        /\ Status \in {500, 502}
                        /\ CarriesPayload(ansB)
                        /\ Len(calls) = 2

\* The part of C10 the code keeps: a non-success answer whose body is JSON
\* gets 500 with the payload in details; no refused call is retried or
\* followed by another call.
C10_JsonErrorBody ==
    /\ (Refused(ansA) /\ ansA.kind = "json") =>
            response = ServerError(<<"Anthropic error: ", ansA.payload>>)
    /\ (Refused(ansB) /\ ansB.kind = "json") =>
            response = ServerError(<<"Anthropic error: ", ansB.payload>>)
    /\ Refused(ansA) => Done /\ Status = 500 /\ Len(calls) = 1
    /\ Refused(ansB) => Done /\ Status = 500 /\ Len(calls) = 2

(***************************************************************************)
(* Properties of stripMarkdownCodeFences                                   *)
(***************************************************************************)
StripDone == sOut # NotRun
StripResult == sOut[2]

BeginsWithFence(s) == Len(s) >= 3 /\ SubSeq(s, 1, 3) = Fence
EndsWithFence(s) == Len(s) >= 3 /\ SubSeq(s, Len(s) - 2, Len(s)) = Fence

\* some line of s begins with a fence / some line of s ends with a fence
SomeLineBeginsWithFence(s) ==
    \E i \in 1..Len(s) : /\ i + 2 <= Len(s)
                         /\ SubSeq(s, i, i + 2) = Fence
                         /\ (i = 1 \/ s[i - 1] = NL)
SomeLineEndsWithFence(s) ==
    \E i \in 1..Len(s) : /\ i + 2 <= Len(s)
                         /\ SubSeq(s, i, i + 2) = Fence
                         /\ (i + 2 = Len(s) \/ s[i + 3] = NL)

\* s is a leading fence line (fence, optional language tag, newline), an
\* inner text, and a trailing fence line (newline, fence)
TagEnd(s) == SkipLetters(s, 4)
IsWrapped(s) == /\ BeginsWithFence(s)
                /\ EndsWithFence(s)
                /\ TagEnd(s) <= Len(s) - 3
                /\ s[TagEnd(s)] = NL
                /\ s[Len(s) - 3] = NL
InnerText(s) == SubSeq(s, TagEnd(s) + 1, Len(s) - 4)

\* C7 as stated: only a fence at the very start and a fence at the very end
\* of the string are removed, so a wrapped text yields its inner text and a
\* text that neither begins nor ends with a fence yields itself, trimmed.
\* (Read generously: surrounding white space is not counted as the text's
\* beginning or end, and the inner text is compared trimmed.)
C7_AsStated ==
    StripDone =>
        /\ (IsWrapped(sIn)
              /\ ~SomeLineBeginsWithFence(InnerText(sIn))
              /\ ~SomeLineEndsWithFence(InnerText(sIn)))
            => StripResult = Trim(InnerText(sIn))
        /\ (~BeginsWithFence(Trim(sIn)) /\ ~EndsWithFence(Trim(sIn)))
            => StripResult = Trim(sIn)

\* C7 amended: the fences removed are the first one that begins a line and
\* the first one that ends a line, anywhere in the text.  A text wrapped in
\* a leading and a trailing fence line, whose inner text has no fence at a
\* line's start or end, yields the inner text trimmed; a text none of whose
\* lines begins or ends with a fence yields itself, trimmed.
C7_StripFences ==
    StripDone =>
        /\ (IsWrapped(sIn)
              /\ ~SomeLineBeginsWithFence(InnerText(sIn))
              /\ ~SomeLineEndsWithFence(InnerText(sIn)))
            => StripResult = Trim(InnerText(sIn))
        /\ (~SomeLineBeginsWithFence(sIn) /\ ~SomeLineEndsWithFence(sIn))
            => StripResult = Trim(sIn)

\* ```j\nx\n``` has been sanitized to x
C7_Witness ==
    /\ sIn = Fence \o <<"j", NL, "x", NL>> \o Fence
    /\ IsWrapped(sIn)
    /\ sOut = <<"ok", <<"x">>>>

(***************************************************************************)
(* Properties of clamp01                                                   *)
(***************************************************************************)
ClampDone == cOut # NotClamped

\* the inputs C8 calls non-numeric
NonNumeric(n) == \/ n.t \in {"null", "undefined", "boolean", "array", "object"}
                 \/ n.t = "string" /\ n.str = "word"

\* C8: a number below 0 gives 0, a number above 1 gives 1, a number in
\* [0,1] gives itself, and a non-numeric input gives null.
C8_AsStated ==
    ClampDone =>
        /\ (cIn.t = "number" /\ IsFinite(cIn.num)) =>
              cOut = JsNumber(Fin(IF cIn.num[2] < 0 THEN 0
                                  ELSE IF cIn.num[2] > Scale THEN Scale
                                  ELSE cIn.num[2]))
        /\ NonNumeric(cIn) => cOut = JsNull

\* The part of C8 the code keeps: finite numbers are clamped into [0,1];
\* undefined, NaN, the infinities, non-numeric strings and objects give null.
C8_NumbersAndNull ==
    ClampDone =>
        /\ (cIn.t = "number" /\ IsFinite(cIn.num)) =>
              cOut = JsNumber(Fin(IF cIn.num[2] < 0 THEN 0
                                  ELSE IF cIn.num[2] > Scale THEN Scale
                                  ELSE cIn.num[2]))
        /\ (cIn.t = "number" /\ ~IsFinite(cIn.num)) => cOut = JsNull
        /\ (\/ cIn.t \in {"undefined", "object"}
            \/ cIn.t = "string" /\ cIn.str = "word") => cOut = JsNull
        /\ cOut.t \in {"null", "number"}
        /\ cOut.t = "number" => cOut.num[2] \in 0..Scale

(***************************************************************************)
(* Properties of the pages                                                 *)
(***************************************************************************)
AllResolved == /\ Len(flows) >= 2
               /\ \A i \in 1..Len(flows) : flows[i].pc = "done"
LastResolved == resolved[Len(resolved)]

\* the fields C6 names: status, extracted/enriched or result, error or raw
DisplayFields == DOMAIN ui \ {"previewUrl"}

\* the state flow i's own run leaves: what it cleared at its start, then
\* what it wrote at its end
OutcomeOf(i) ==
    [f \in DisplayFields |->
        IF f \in DOMAIN flows[i].wrote[1] THEN flows[i].wrote[1][f] ELSE Null]

\* C6: a file was picked while a flow was in flight, and all flows have
\* resolved: the displayed state is the outcome of the flow that resolved
\* last, and nothing the other flow's end wrote is left.
C6_AsStated ==
    (overlap /\ AllResolved) =>
        \A f \in DisplayFields : ui[f] = OutcomeOf(LastResolved)[f]

\* The part of C6 the code keeps: the fields the last-resolved flow's end
\* wrote, the status among them, are displayed as it wrote them.
C6_LastWritesShown ==
    AllResolved =>
        /\ "status" \in DOMAIN flows[LastResolved].wrote[1]
        /\ \A f \in DOMAIN flows[LastResolved].wrote[1] :
              ui[f] = flows[LastResolved].wrote[1][f]

====
